---------------------------- MODULE Spec2Model ----------------------------
(***************************************************************************)
(* A model of bairiak (src/src/lib.rs): the Bairiak bit container, the     *)
(* name validator, the width selector, the enum code generator and the     *)
(* spec-level pipeline.                                                     *)
(*                                                                          *)
(* Strings are sequences of one-character strings; an unsigned integer of   *)
(* width w is the sequence of its w bits, least significant first (TLC's    *)
(* integers are too narrow for u64 and u128).  The generated text is the    *)
(* sequence of its fragments, one per format! call of the generator.        *)
(***************************************************************************)
EXTENDS Integers, Sequences, FiniteSets, TLC

VARIABLES
    variants_len,   \* generete_zero_bairiak: its argument
    zero_bairiak,   \* generete_zero_bairiak: its Result, or NotCalled
    e,              \* generate_enum: the Enum it is given
    enum_result,    \* generate_enum: its Result, or NotCalled
    pc,             \* generate_bairiak_enums: the statement it is at
    read_ok,        \* whether fs::read_to_string succeeds
    yaml_ok,        \* whether serde_yaml::from_str succeeds
    write_ok,       \* whether fs::write succeeds
    enums,          \* the parsed EnumSpec's enums
    idx,            \* generate_enums: enums consumed by the for loop so far
    enums_code,     \* generate_enums: the text accumulated so far
    processed,      \* history: the indices generate_enum was called on, in order
    writes,         \* history: the texts handed to fs::write, in order
    output,         \* the output file: NoFile or the text written
    pipeline_result,\* generate_bairiak_enums: its Result, or NotCalled
    B,              \* generate_bairiak: the flag type (a BairiakEnum impl)
    flags,          \* generate_bairiak: the HashSet of flags it is given
    remaining,      \* generate_bairiak: flags the for loop has not yet visited
    bairiak,        \* the Bairiak container
    gpc,            \* generate_bairiak: the statement it is at
    answer          \* the last is_false / is_true query and its results

widthVars == <<variants_len, zero_bairiak>>
enumVars == <<e, enum_result>>
pipeVars == <<pc, read_ok, yaml_ok, write_ok, enums, idx, enums_code, processed,
              writes, output, pipeline_result>>
bairiakVars == <<B, flags, remaining, bairiak, gpc, answer>>
vars == <<widthVars, enumVars, pipeVars, bairiakVars>>

---------------------------------------------------------------------------
(* Bounds of the model. *)

MaxVariants == 130      \* longest variant list tried
MaxNameLen == 2         \* longest name tried by the validator
MaxEnums == 3           \* longest EnumSpec tried by the pipeline
LowFlags == 1           \* flags tried at the lowest positions of a flag type
HighFlags == 1          \* flags tried at the highest positions of a flag type

---------------------------------------------------------------------------
(* Result<T, BairiakError> *)

NotCalled == [ok |-> FALSE, err |-> "NotCalled"]

Ok(v) == [ok |-> TRUE, err |-> "None", val |-> v]

Err(err) == [ok |-> FALSE, err |-> err]

BairiakError == {"ReadSpecError", "DeserializeYamlError", "ParseBairiakEnumsError",
                 "WriteFileError", "PositionOutOfRangeError"}

---------------------------------------------------------------------------
(* The width selector. *)

\* the selector with inclusive upper ends (0..=8, 9..=16, ...)
generete_zero_bairiak_inclusive(n) ==
    IF 0 <= n /\ n <= 8 THEN Ok("Bairiak::U8(0u8)")
    ELSE IF 8 < n /\ n <= 16 THEN Ok("Bairiak::U16(0u16)")
    ELSE IF 16 < n /\ n <= 32 THEN Ok("Bairiak::U32(0u32)")
    ELSE IF 32 < n /\ n <= 64 THEN Ok("Bairiak::U64(0u64)")
    ELSE IF 64 < n /\ n <= 128 THEN Ok("Bairiak::U128(0u128)")
    ELSE Err("PositionOutOfRangeError")

\* the selector with the results of its first two arms exchanged
generete_zero_bairiak_swapped(n) ==
    IF 0 <= n /\ n < 8 THEN Ok("Bairiak::U16(0u16)")
    ELSE IF 8 <= n /\ n < 16 THEN Ok("Bairiak::U8(0u8)")
    ELSE IF 16 <= n /\ n < 32 THEN Ok("Bairiak::U32(0u32)")
    ELSE IF 32 <= n /\ n < 64 THEN Ok("Bairiak::U64(0u64)")
    ELSE IF 64 <= n /\ n < 128 THEN Ok("Bairiak::U128(0u128)")
    ELSE Err("PositionOutOfRangeError")

generete_zero_bairiak(n) ==
    IF 0 <= n /\ n < 8 THEN Ok("Bairiak::U8(0u8)")
    ELSE IF 8 <= n /\ n < 16 THEN Ok("Bairiak::U16(0u16)")
    ELSE IF 16 <= n /\ n < 32 THEN Ok("Bairiak::U32(0u32)")
    ELSE IF 32 <= n /\ n < 64 THEN Ok("Bairiak::U64(0u64)")
    ELSE IF 64 <= n /\ n < 128 THEN Ok("Bairiak::U128(0u128)")
    ELSE Err("PositionOutOfRangeError")

---------------------------------------------------------------------------
(* Characters and the regex engine, as far as is_camel_case uses it. *)

LowerAscii == {"a", "b", "c", "d", "e", "f", "g", "h", "i", "j", "k", "l", "m",
               "n", "o", "p", "q", "r", "s", "t", "u", "v", "w", "x", "y", "z"}

UpperAscii == {"A", "B", "C", "D", "E", "F", "G", "H", "I", "J", "K", "L", "M",
               "N", "O", "P", "Q", "R", "S", "T", "U", "V", "W", "X", "Y", "Z"}

DigitAscii == {"0", "1", "2", "3", "4", "5", "6", "7", "8", "9"}

\* \w, restricted to ASCII
Word == LowerAscii \cup UpperAscii \cup DigitAscii \cup {"_"}

\* One character against a bracket expression.
ClassMatches(item, c) == IF item.neg THEN c \notin item.class ELSE c \in item.class

\* Whether items k.. of the pattern match s from position i on, ending anywhere
\* or, when the pattern ends with $, at the end of s.
RECURSIVE MatchItems(_, _, _, _, _)
MatchItems(items, k, s, i, anchor_end) ==
    IF k > Len(items) THEN (~anchor_end) \/ i = Len(s) + 1
    ELSE IF items[k].star
         THEN \/ MatchItems(items, k + 1, s, i, anchor_end)
              \/ /\ i <= Len(s)
                 /\ ClassMatches(items[k], s[i])
                 /\ MatchItems(items, k, s, i + 1, anchor_end)
         ELSE /\ i <= Len(s)
              /\ ClassMatches(items[k], s[i])
              /\ MatchItems(items, k + 1, s, i + 1, anchor_end)

\* Regex::is_match: a match anywhere in s, unless the pattern is anchored.
is_match(re, s) ==
    \E start \in (IF re.anchor_start THEN {1} ELSE 1..(Len(s) + 1)) :
        MatchItems(re.items, 1, s, start, re.anchor_end)

\* ^[^a-z0-9][\w]*$
CamelCaseRe ==
    [anchor_start |-> TRUE, anchor_end |-> TRUE,
     items |-> << [neg |-> TRUE, class |-> LowerAscii \cup DigitAscii, star |-> FALSE],
                  [neg |-> FALSE, class |-> Word, star |-> TRUE] >>]

\* [^a-z0-9][\w]* : the same pattern without its anchors
is_camel_case_unanchored(s) ==
    is_match([CamelCaseRe EXCEPT !.anchor_start = FALSE, !.anchor_end = FALSE], s)

is_camel_case(s) == is_match(CamelCaseRe, s)

---------------------------------------------------------------------------
(* The enum code generator. *)

\* validate_enum without the check of the variant list
validate_enum_name_only(name, variants) ==
    IF ~is_camel_case(name) THEN Err("ParseBairiakEnumsError")
    ELSE Ok("unit")

validate_enum(name, variants) ==
    IF ~is_camel_case(name) THEN Err("ParseBairiakEnumsError")
    ELSE IF variants = <<>> THEN Err("ParseBairiakEnumsError")
    ELSE Ok("unit")

\* The fragments of the generated text, one per format! call.
EnumHeader(name) == [kind |-> "enum", name |-> name, disc |-> -1, zero |-> ""]

\* a variant line with a one-based discriminant
VariantLine_one_based(v, i) == [kind |-> "variant", name |-> v, disc |-> i + 1, zero |-> ""]

VariantLine(v, i) == [kind |-> "variant", name |-> v, disc |-> i, zero |-> ""]

ImplBlock(name, zero) == [kind |-> "impl", name |-> name, disc |-> -1, zero |-> zero]

\* for i in 0..e.variants.len(), from iteration i on (variants.get(i) is
\* always Some there)
RECURSIVE variant_loop(_, _, _)
variant_loop(variants, i, enum_code) ==
    IF i >= Len(variants) THEN Ok(enum_code)
    ELSE LET v == variants[i + 1]
         IN  IF ~is_camel_case(v) THEN Err("ParseBairiakEnumsError")
             ELSE variant_loop(variants, i + 1, Append(enum_code, VariantLine(v, i)))

\* generate_enum with the width selected after the variant loop
generate_enum_width_last(en) ==
    LET valid == validate_enum(en.name, en.variants)
        zero == generete_zero_bairiak(Len(en.variants))
        body == variant_loop(en.variants, 0, <<EnumHeader(en.name)>>)
    IN  IF ~valid.ok THEN Err(valid.err)
        ELSE IF ~body.ok THEN Err(body.err)
        ELSE IF ~zero.ok THEN Err(zero.err)
        ELSE Ok(Append(body.val, ImplBlock(en.name, zero.val)))

generate_enum(en) ==
    LET valid == validate_enum(en.name, en.variants)
        zero == generete_zero_bairiak(Len(en.variants))
        body == variant_loop(en.variants, 0, <<EnumHeader(en.name)>>)
    IN  IF ~valid.ok THEN Err(valid.err)
        ELSE IF ~zero.ok THEN Err(zero.err)
        ELSE IF ~body.ok THEN Err(body.err)
        ELSE Ok(Append(body.val, ImplBlock(en.name, zero.val)))

---------------------------------------------------------------------------
(* The Bairiak container and the BairiakEnum trait. *)

Tags == {"U8", "U16", "U32", "U64", "U128"}

\* The bit width of each variant's integer.
Bits(tag) ==
    CASE tag = "U8" -> 8 [] tag = "U16" -> 16 [] tag = "U32" -> 32
      [] tag = "U64" -> 64 [] tag = "U128" -> 128

\* Unsigned integers of width w as bit sequences, bit 0 first.
ZeroInt(w) == [i \in 1..w |-> 0]

OneInt(w) == [i \in 1..w |-> IF i = 1 THEN 1 ELSE 0]

\* x << p.  Rust panics in a debug build when p is the width or more; a
\* release build masks p to the width, which is what is modelled.
Shl(x, p) ==
    LET s == p % Len(x)
    IN  [i \in 1..Len(x) |-> IF i - s >= 1 THEN x[i - s] ELSE 0]

BitAnd(x, y) == [i \in 1..Len(x) |-> IF x[i] = 1 /\ y[i] = 1 THEN 1 ELSE 0]

BitOr(x, y) == [i \in 1..Len(x) |-> IF x[i] = 1 \/ y[i] = 1 THEN 1 ELSE 0]

\* The value of the expression a get_zero_bairiak body consists of.
EvalZero(text) ==
    CASE text = "Bairiak::U8(0u8)" -> [tag |-> "U8", value |-> ZeroInt(8)]
      [] text = "Bairiak::U16(0u16)" -> [tag |-> "U16", value |-> ZeroInt(16)]
      [] text = "Bairiak::U32(0u32)" -> [tag |-> "U32", value |-> ZeroInt(32)]
      [] text = "Bairiak::U64(0u64)" -> [tag |-> "U64", value |-> ZeroInt(64)]
      [] text = "Bairiak::U128(0u128)" -> [tag |-> "U128", value |-> ZeroInt(128)]

\* A flag type is the text of its get_zero_bairiak body and the number of its
\* variants; a flag is its discriminant, which to_u8 returns (self as u8).
get_zero_bairiak(ty) == EvalZero(ty.zero)

to_u8(flag) == flag % 256

\* (*value & 1) << flag == 0 : the precedence of C, not of Rust
is_false_c_precedence(b, flag) ==
    Shl(BitAnd(b.value, OneInt(Bits(b.tag))), to_u8(flag)) = ZeroInt(Bits(b.tag))

\* *value & 1 << flag == 0 : in Rust << binds tighter than &, and & than ==
is_false(b, flag) ==
    BitAnd(b.value, Shl(OneInt(Bits(b.tag)), to_u8(flag))) = ZeroInt(Bits(b.tag))

is_true(b, flag) == ~is_false(b, flag)

\* *value = 1 << flag_value : the bit assigned, not OR-ed in
or_assign_overwriting(b, flag_value) ==
    [b EXCEPT !.value = Shl(OneInt(Bits(b.tag)), flag_value)]

\* *value |= 1 << flag_value, in the arm of the active variant
or_assign(b, flag_value) ==
    [b EXCEPT !.value = BitOr(@, Shl(OneInt(Bits(b.tag)), flag_value))]

---------------------------------------------------------------------------
(* Inputs. *)

Alphabet == {"A", "a", "0", "_", "!"}

\* All strings over Alphabet of length n, and of length at most n.
StringsOfLen(n) == [1..n -> Alphabet]

Names == UNION {StringsOfLen(n) : n \in 0..MaxNameLen}

TestEnum == <<"T", "e", "s", "t", "E", "n", "u", "m">>

\* "Var0", "Var1", ...: the variant names of the tests, the digit cycling
Var(i) == <<"V", "a", "r", <<"0", "1", "2", "3", "4", "5", "6", "7", "8", "9">>[(i % 10) + 1]>>

\* The invalid variant names of the tests: "var1", "1var", "var!"
InvalidVariants == << <<"v", "a", "r", "1">>, <<"1", "v", "a", "r">>,
                      <<"v", "a", "r", "!">> >>

\* n variants Var0, Var1, ..., the k-th (from 1; 0: none) replaced by an
\* invalid name, the three taken in turn
VariantList(n, k) ==
    [i \in 1..n |-> IF i = k THEN InvalidVariants[(k % Len(InvalidVariants)) + 1]
                    ELSE Var(i - 1)]

\* Small enums over every name, and long enums with at most one invalid variant
\* under the valid name "TestEnum" and the invalid name "1" of the tests.
IsSmallEnum(en) ==
    \E nm \in Names, vs \in {<<>>} \cup {<<v>> : v \in Names} :
        en = [name |-> nm, variants |-> vs]

IsLongEnum(en) ==
    \E nm \in {TestEnum, <<"1">>}, n \in 0..MaxVariants :
        \E k \in 0..n : en = [name |-> nm, variants |-> VariantList(n, k)]

---------------------------------------------------------------------------
(* Specifications of the pure functions: the input is drawn in Init and    *)
(* the function applied once.                                              *)

WidthIdle == variants_len = 0 /\ zero_bairiak = NotCalled

EnumIdle == e = [name |-> <<>>, variants |-> <<>>] /\ enum_result = NotCalled

PipeIdle ==
    /\ pc = "idle" /\ read_ok = FALSE /\ yaml_ok = FALSE /\ write_ok = FALSE
    /\ enums = <<>> /\ idx = 0 /\ enums_code = <<>> /\ processed = <<>>
    /\ writes = <<>> /\ output = [written |-> FALSE, text |-> <<>>]
    /\ pipeline_result = NotCalled

BairiakIdle ==
    /\ B = [zero |-> "Bairiak::U8(0u8)", count |-> 0] /\ flags = {} /\ remaining = {}
    /\ bairiak = [tag |-> "U8", value |-> <<>>] /\ gpc = "idle"
    /\ answer = [asked |-> FALSE]

InitWidth ==
    /\ variants_len \in 0..MaxVariants
    /\ zero_bairiak = NotCalled
    /\ EnumIdle /\ PipeIdle /\ BairiakIdle

SelectWidth ==
    /\ zero_bairiak = NotCalled
    /\ zero_bairiak' = generete_zero_bairiak(variants_len)
    /\ UNCHANGED <<variants_len, enumVars, pipeVars, bairiakVars>>

NextWidth == SelectWidth

SpecWidth == InitWidth /\ [][NextWidth]_vars

InitEnum ==
    /\ IsSmallEnum(e) \/ IsLongEnum(e)
    /\ enum_result = NotCalled
    /\ WidthIdle /\ PipeIdle /\ BairiakIdle

GenerateEnum ==
    /\ enum_result = NotCalled
    /\ enum_result' = generate_enum(e)
    /\ UNCHANGED <<e, widthVars, pipeVars, bairiakVars>>

NextEnum == GenerateEnum

SpecEnum == InitEnum /\ [][NextEnum]_vars

---------------------------------------------------------------------------
(* generate_bairiak and the queries of the container it returns. *)

\* The flag types the generator emits, one per accepted number of variants.
IsGeneratedType(ty) ==
    \E n \in 0..MaxVariants :
        /\ generete_zero_bairiak(n).ok
        /\ ty = [zero |-> generete_zero_bairiak(n).val, count |-> n]

ZeroText(tag) ==
    CASE tag = "U8" -> "Bairiak::U8(0u8)" [] tag = "U16" -> "Bairiak::U16(0u16)"
      [] tag = "U32" -> "Bairiak::U32(0u32)" [] tag = "U64" -> "Bairiak::U64(0u64)"
      [] tag = "U128" -> "Bairiak::U128(0u128)"

\* Hand-written flag types that use every bit of their container.
IsHandWrittenType(ty) ==
    \E tag \in Tags : ty = [zero |-> ZeroText(tag), count |-> Bits(tag)]

\* The flags tried: the lowest LowFlags and the highest HighFlags of the type.
FlagsTried(ty) ==
    {f \in 0..(ty.count - 1) : f < LowFlags \/ f >= ty.count - HighFlags}

InitBairiak ==
    /\ IsGeneratedType(B) \/ IsHandWrittenType(B)
    /\ flags \in SUBSET FlagsTried(B)
    /\ remaining = {}
    /\ bairiak = [tag |-> "U8", value |-> <<>>]
    /\ gpc = "start"
    /\ answer = [asked |-> FALSE]
    /\ WidthIdle /\ EnumIdle /\ PipeIdle

\* let mut bairiak = B::get_zero_bairiak();
GenerateBairiakStart ==
    /\ gpc = "start"
    /\ bairiak' = get_zero_bairiak(B)
    /\ remaining' = flags
    /\ gpc' = "loop"
    /\ UNCHANGED <<B, flags, answer, widthVars, enumVars, pipeVars>>

\* One iteration of for flag in flags: a HashSet yields its elements in any order.
GenerateBairiakStep ==
    /\ gpc = "loop"
    /\ \E flag \in remaining :
        /\ bairiak' = or_assign(bairiak, to_u8(flag))
        /\ remaining' = remaining \ {flag}
    /\ UNCHANGED <<B, flags, gpc, answer, widthVars, enumVars, pipeVars>>

GenerateBairiakReturn ==
    /\ gpc = "loop"
    /\ remaining = {}
    /\ gpc' = "done"
    /\ UNCHANGED <<B, flags, remaining, bairiak, answer, widthVars, enumVars, pipeVars>>

\* is_false and is_true of the returned container, for a flag of any flag type
\* whose position is below the container's width.  One query per behaviour:
\* every pair of a returned container and such a flag is reached.
Query ==
    /\ gpc = "done"
    /\ ~answer.asked
    /\ \E flag \in 0..(Bits(bairiak.tag) - 1) :
        answer' = [asked |-> TRUE, flag |-> flag, before |-> bairiak,
                   is_false |-> is_false(bairiak, flag),
                   is_true |-> is_true(bairiak, flag)]
    /\ UNCHANGED <<B, flags, remaining, bairiak, gpc, widthVars, enumVars, pipeVars>>

NextBairiak ==
    \/ GenerateBairiakStart
    \/ GenerateBairiakStep
    \/ GenerateBairiakReturn
    \/ Query

SpecBairiak == InitBairiak /\ [][NextBairiak]_vars

---------------------------------------------------------------------------
(* The pipeline generate_bairiak_enums, one action per statement. *)

\* The enums a spec file is made of: the spec's Color example, the tests'
\* TestEnum of two variants, invalid name "1" and empty TestEnum, and an enum
\* of 128 variants.
Color == [name |-> <<"C", "o", "l", "o", "r">>,
          variants |-> << <<"R", "e", "d">>, <<"G", "r", "e", "e", "n">>,
                          <<"B", "l", "u", "e">> >>]

PipelineEnums ==
    { Color,
      [name |-> TestEnum, variants |-> VariantList(2, 0)],
      [name |-> <<"1">>, variants |-> VariantList(3, 0)],
      [name |-> TestEnum, variants |-> <<>>],
      [name |-> TestEnum, variants |-> VariantList(128, 0)] }

\* All sequences over S of length at most n.
SeqsUpTo(S, n) == UNION {[1..m -> S] : m \in 0..n}

\* "use bairiak::{Bairiak, BairiakEnum};"
imports_code == [kind |-> "imports", name |-> <<>>, disc |-> -1, zero |-> ""]

InitPipeline ==
    /\ pc = "read"
    /\ read_ok \in BOOLEAN
    /\ yaml_ok \in BOOLEAN
    /\ write_ok \in BOOLEAN
    /\ enums \in SeqsUpTo(PipelineEnums, MaxEnums)
    /\ idx = 0
    /\ enums_code = <<>>
    /\ processed = <<>>
    /\ writes = <<>>
    /\ output = [written |-> FALSE, text |-> <<>>]
    /\ pipeline_result = NotCalled
    /\ WidthIdle /\ EnumIdle /\ BairiakIdle

\* fs::read_to_string(bairiak_spec_path)
ReadSpec ==
    /\ pc = "read"
    /\ IF read_ok
       THEN pc' = "parse" /\ UNCHANGED pipeline_result
       ELSE pc' = "done" /\ pipeline_result' = Err("ReadSpecError")
    /\ UNCHANGED <<read_ok, yaml_ok, write_ok, enums, idx, enums_code, processed,
                   writes, output, widthVars, enumVars, bairiakVars>>

\* serde_yaml::from_str(&yaml_content)
ParseYaml ==
    /\ pc = "parse"
    /\ IF yaml_ok
       THEN pc' = "generate" /\ UNCHANGED pipeline_result
       ELSE pc' = "done" /\ pipeline_result' = Err("DeserializeYamlError")
    /\ UNCHANGED <<read_ok, yaml_ok, write_ok, enums, idx, enums_code, processed,
                   writes, output, widthVars, enumVars, bairiakVars>>

\* an iteration of generate_enums that pushes nothing for an enum that fails
GenerateEnumsStepSkipping ==
    /\ pc = "generate"
    /\ idx < Len(enums)
    /\ LET r == generate_enum(enums[idx + 1])
       IN  /\ processed' = Append(processed, idx + 1)
           /\ enums_code' = IF r.ok THEN enums_code \o r.val ELSE enums_code
           /\ idx' = idx + 1
           /\ UNCHANGED <<pc, pipeline_result>>
    /\ UNCHANGED <<read_ok, yaml_ok, write_ok, enums, writes, output,
                   widthVars, enumVars, bairiakVars>>

\* One iteration of for e in &enums.enums: enums_code.push_str(&generate_enum(e)?)
GenerateEnumsStep ==
    /\ pc = "generate"
    /\ idx < Len(enums)
    /\ LET r == generate_enum(enums[idx + 1])
       IN  /\ processed' = Append(processed, idx + 1)
           /\ IF r.ok
              THEN /\ enums_code' = enums_code \o r.val
                   /\ idx' = idx + 1
                   /\ UNCHANGED <<pc, pipeline_result>>
              ELSE /\ pc' = "done"
                   /\ pipeline_result' = Err(r.err)
                   /\ UNCHANGED <<enums_code, idx>>
    /\ UNCHANGED <<read_ok, yaml_ok, write_ok, enums, writes, output,
                   widthVars, enumVars, bairiakVars>>

\* Ok(enums_code), and the format! of the aggregate
GenerateEnumsReturn ==
    /\ pc = "generate"
    /\ idx = Len(enums)
    /\ pc' = "write"
    /\ UNCHANGED <<read_ok, yaml_ok, write_ok, enums, idx, enums_code, processed,
                   writes, output, pipeline_result, widthVars, enumVars, bairiakVars>>

\* fs::write(output_path, bairiak_enums_code)
WriteOutput ==
    /\ pc = "write"
    /\ LET bairiak_enums_code == <<imports_code>> \o enums_code
       IN  /\ writes' = Append(writes, bairiak_enums_code)
           /\ IF write_ok
              THEN /\ output' = [written |-> TRUE, text |-> bairiak_enums_code]
                   /\ pipeline_result' = Ok("unit")
              ELSE /\ pipeline_result' = Err("WriteFileError")
                   /\ UNCHANGED output
    /\ pc' = "done"
    /\ UNCHANGED <<read_ok, yaml_ok, write_ok, enums, idx, enums_code, processed,
                   widthVars, enumVars, bairiakVars>>

Next ==
    \/ ReadSpec
    \/ ParseYaml
    \/ GenerateEnumsStep
    \/ GenerateEnumsReturn
    \/ WriteOutput

Spec == InitPipeline /\ [][Next]_vars

---------------------------------------------------------------------------
(* Properties of the width selector, under SpecWidth. *)

Selected == zero_bairiak # NotCalled

\* C1: the width selector maps n in [0,7] to the 8-bit zero container, [8,15]
\* to the 16-bit one, [16,31] to the 32-bit one, [32,63] to the 64-bit one,
\* [64,127] to the 128-bit one, and fails with PositionOutOfRangeError for
\* every n >= 128, 128 included.
C1_WidthTable ==
    Selected =>
        /\ variants_len \in 0..7 => zero_bairiak = Ok("Bairiak::U8(0u8)")
        /\ variants_len \in 8..15 => zero_bairiak = Ok("Bairiak::U16(0u16)")
        /\ variants_len \in 16..31 => zero_bairiak = Ok("Bairiak::U32(0u32)")
        /\ variants_len \in 32..63 => zero_bairiak = Ok("Bairiak::U64(0u64)")
        /\ variants_len \in 64..127 => zero_bairiak = Ok("Bairiak::U128(0u128)")
        /\ variants_len >= 128 => zero_bairiak = Err("PositionOutOfRangeError")

C1_Witness ==
    /\ variants_len = 128
    /\ zero_bairiak = Err("PositionOutOfRangeError")

\* C9: for every accepted variant count n the selected width is the minimal one
\* of 8, 16, 32, 64, 128 bits that holds n bits (positions 0..n-1): every
\* narrower width of the five has fewer than n bits.
C9_MinimalWidth ==
    (Selected /\ zero_bairiak.ok) =>
        \A tag \in Tags :
            Bits(tag) < Bits(EvalZero(zero_bairiak.val).tag) => Bits(tag) < variants_len

---------------------------------------------------------------------------
(* Properties of generate_enum, under SpecEnum. *)

Generated == enum_result # NotCalled

\* A name as the validator is described: non-empty, the first character neither
\* a lowercase ASCII letter nor an ASCII digit, every later one a word character.
Accepted(s) ==
    /\ s # <<>>
    /\ s[1] \notin LowerAscii
    /\ s[1] \notin DigitAscii
    /\ \A i \in 2..Len(s) : s[i] \in Word

AllVariantsAccepted(en) == \A i \in 1..Len(en.variants) : Accepted(en.variants[i])

ParseError == Err("ParseBairiakEnumsError")

OutOfRange == Err("PositionOutOfRangeError")

C6_OutputShape ==
    (Generated /\ enum_result.ok) =>
        LET out == enum_result.val
            n == Len(e.variants)
        IN  /\ Len(out) = n + 2
            /\ out[1] = [kind |-> "enum", name |-> e.name, disc |-> -1, zero |-> ""]
            /\ \A i \in 1..n :
                   out[i + 1] = [kind |-> "variant", name |-> e.variants[i],
                                 disc |-> i - 1, zero |-> ""]
            /\ out[n + 2].kind = "impl"
            /\ out[n + 2].name = e.name
            /\ generete_zero_bairiak(n).ok
            /\ EvalZero(out[n + 2].zero) = EvalZero(generete_zero_bairiak(n).val)
            /\ \A i \in 1..Bits(EvalZero(out[n + 2].zero).tag) :
                   EvalZero(out[n + 2].zero).value[i] = 0

C6_Witness ==
    /\ Generated
    /\ enum_result.ok
    /\ e.name = TestEnum
    /\ e.variants = <<Var(0), Var(1), Var(2)>>

C8_EmptyVariantsFail ==
    Generated =>
        /\ e.variants = <<>> => enum_result = ParseError
        /\ enum_result.ok => \E j \in 1..Len(enum_result.val) :
                                 enum_result.val[j].kind = "variant"

C8_Witness ==
    /\ e.variants = <<>>
    /\ Accepted(e.name)
    /\ enum_result = ParseError

\* C10: on success every emitted discriminant is a bit position strictly below
\* the bit width of the zero container emitted for the enum.
C10_PositionsBelowWidth ==
    (Generated /\ enum_result.ok) =>
        LET out == enum_result.val
            width == Bits(EvalZero(out[Len(out)].zero).tag)
        IN  \A j \in 1..Len(out) :
                out[j].kind = "variant" => (0 <= out[j].disc /\ out[j].disc < width)

C10_Witness ==
    /\ Generated
    /\ enum_result.ok
    /\ Len(e.variants) = 127
    /\ enum_result.val[128].disc = 126

---------------------------------------------------------------------------
(* Properties of the container, under SpecBairiak. *)

\* The integer of width w whose set bits are the positions in S.
BitsOfSet(S, w) == [i \in 1..w |-> IF (i - 1) \in S THEN 1 ELSE 0]

\* C4: for every container and every flag whose position is below its width,
\* is_false is true iff the bit at the flag's position is 0 in the stored
\* integer, is_true is its negation, and the container is left as it was.
C4_IsFalseIsTrue ==
    answer.asked =>
        /\ answer.flag < Bits(bairiak.tag)
        /\ answer.is_false = (bairiak.value[answer.flag + 1] = 0)
        /\ answer.is_true = ~answer.is_false
        /\ bairiak = answer.before

C4_Witness ==
    /\ answer.asked
    /\ bairiak = [tag |-> "U8", value |-> <<1, 0, 1, 0, 0, 0, 0, 0>>]
    /\ answer.flag = 1
    /\ answer.is_false
    /\ ~answer.is_true

\* C5: whatever order the set of flags is iterated in, the loop keeps the
\* variant get_zero_bairiak returned and ends in the container whose value is
\* the bitwise OR of 1 << position over the flags of the set (zero for the
\* empty set).
C5_OrderIndependent ==
    /\ gpc \in {"loop", "done"} =>
           /\ bairiak.tag = get_zero_bairiak(B).tag
           /\ Len(bairiak.value) = Bits(bairiak.tag)
           /\ bairiak.value = BitsOfSet(flags \ remaining, Bits(bairiak.tag))
    /\ gpc = "done" => bairiak.value = BitsOfSet(flags, Bits(bairiak.tag))

C5_Witness ==
    /\ gpc = "done"
    /\ B = [zero |-> "Bairiak::U8(0u8)", count |-> 3]
    /\ flags = {0, 2}
    /\ bairiak = [tag |-> "U8", value |-> <<1, 0, 1, 0, 0, 0, 0, 0>>]

---------------------------------------------------------------------------
(* Properties of the pipeline, under Spec. *)

Fails(i) == ~generate_enum(enums[i]).ok

\* The index of the first enum of the spec whose generation fails, or 0.
FirstFailure ==
    IF \E i \in 1..Len(enums) : Fails(i)
    THEN CHOOSE i \in 1..Len(enums) : Fails(i) /\ \A j \in 1..(i - 1) : ~Fails(j)
    ELSE 0

\* The fragments of enums 1..i, in spec order.
RECURSIVE FragmentsUpTo(_)
FragmentsUpTo(i) ==
    IF i = 0 THEN <<>> ELSE FragmentsUpTo(i - 1) \o generate_enum(enums[i]).val

\* C2: enums are generated in spec order; the first enum whose generation fails
\* aborts the run, which returns that enum's error, processes no later enum and
\* never writes the output; the one write of the aggregate happens only after
\* every enum of the spec has been generated successfully.
C2_FirstFailureAborts ==
    /\ \A j \in 1..Len(processed) : processed[j] = j
    /\ FirstFailure # 0 =>
           /\ Len(processed) <= FirstFailure
           /\ writes = <<>>
           /\ ~output.written
           /\ (pc = "done" /\ read_ok /\ yaml_ok) =>
                  /\ pipeline_result = Err(generate_enum(enums[FirstFailure]).err)
                  /\ Len(processed) = FirstFailure
    /\ Len(writes) <= 1
    /\ writes # <<>> =>
           /\ FirstFailure = 0
           /\ Len(processed) = Len(enums)
           /\ writes[1] = <<imports_code>> \o FragmentsUpTo(Len(enums))
    /\ output.written => (writes # <<>> /\ output.text = writes[1])

C2_Witness ==
    /\ pc = "done"
    /\ Len(enums) = 3
    /\ enums[1] = Color
    /\ Len(enums[2].variants) = 128
    /\ enums[3].name = <<"1">>
    /\ pipeline_result = Err("PositionOutOfRangeError")
    /\ processed = <<1, 2>>
    /\ writes = <<>>

=============================================================================
